---- MODULE Spec2Model ----
(***************************************************************************)
(* Folder Tree Viewer (src/tree.py): the background producers              *)
(* (FolderSizeWorker, SearchWorker, ExpandAllThread) and the MainWindow    *)
(* handlers that consume their queued signals on the GUI thread.           *)
(*                                                                         *)
(* Strings are sequences of one-character strings, so that os.path.join,   *)
(* os.path.dirname and str.count are computed as posixpath computes them.  *)
(* A signal emitted in a worker thread towards a slot of MainWindow is a   *)
(* queued connection: the event is appended to the GUI thread's event      *)
(* queue (evq) and its slot runs when the event loop delivers it.          *)
(* A worker step is the code between two reads of its _running flag.       *)
(***************************************************************************)
EXTENDS Integers, Sequences, FiniteSets, TLC

VARIABLES
    fs,             \* which file system content is on disk (index in FileSystems)
    clipboard_files,\* MainWindow.clipboard_files
    clipboard_mode, \* MainWindow.clipboard_mode: "none" (None), "copy" or "cut"
    root,           \* path of the tree's root index, <<>> in the This PC view
    settings,       \* MainWindow.settings
    loaded,         \* the paths of LazyPaths the QFileSystemModel has a node for
    evq,            \* GUI thread's queue of posted signal events, oldest first
    gui_pc,         \* "idle": in the event loop; "tick_check": in the drain, after processEvents()
    sizeW,          \* the FolderSizeWorker objects created so far, by creation number
    size_thread,    \* MainWindow.size_thread: creation number, 0 = None
    folder_sizes,   \* MainWindow.folder_sizes: path -> bytes
    sizes_src,      \* history: path -> creation number of the worker whose event wrote it
    size_refusals,  \* history: how often start_folder_size_scan reported an invalid root
    searchW,        \* the SearchWorker objects created so far
    search_thread,  \* MainWindow.search_thread, 0 = not set
    matches,        \* MainWindow.matches (an index is given by its path)
    match_pos,      \* MainWindow.match_pos
    matches_root,   \* history: for each match, the root its search walked
    matches_needle, \* history: for each match, the needle it was found for
    shown,          \* history: the last match find_next or find_prev went to
    search_errors,  \* history: how often _on_search_done raised IndexError
    expandW,        \* the ExpandAllThread objects created so far
    expand_thread,  \* MainWindow.expand_thread, 0 = None
    expand_queue,   \* MainWindow._expand_queue
    queue_src,      \* history: for each queued path, the thread that emitted it
    expand_attempts,\* MainWindow._expand_attempts
    expanding,      \* MainWindow._expanding
    ticks,          \* pending single-shot timers of _process_expand_queue_step
    lookups,        \* history: path -> number of model.index(path) calls of the drain
    expanded,       \* history: path -> number of tree.expand calls of the drain
    expand_state    \* history: how _expanding was last set: "idle", "running", "stopped", "finalized"

\* the disk and the clipboard, which the file operations change
diskVars == <<fs, clipboard_files, clipboard_mode>>

sizeVars == <<sizeW, size_thread, folder_sizes, sizes_src, size_refusals>>

searchVars == <<searchW, search_thread, matches, match_pos, matches_root,
                matches_needle, shown, search_errors>>

expandVars == <<expandW, expand_thread, expand_queue, queue_src, expand_attempts,
                expanding, ticks, lookups, expanded, expand_state>>

\* the data of MainWindow that the slots write
guiData == <<folder_sizes, sizes_src, size_refusals, matches, match_pos, matches_root,
             matches_needle, shown, search_errors,
             expand_queue, queue_src, expand_attempts, lookups, expanded>>

vars == <<diskVars, root, settings, loaded, evq, gui_pc, sizeVars, searchVars, expandVars>>

(***************************************************************************)
(* Bounds of the model.                                                    *)
(***************************************************************************)
MaxScans == 2       \* FolderSizeWorker objects created in one behaviour
MaxSearches == 1    \* SearchWorker objects created in one behaviour
MaxExpands == 1     \* ExpandAllThread objects created in one behaviour

(***************************************************************************)
(* Strings and paths (POSIX flavour of os.path).                           *)
(***************************************************************************)
SEP == "/"

Range(s) == {s[n] : n \in 1..Len(s)}

RECURSIVE CountSep(_)
CountSep(p) ==
    IF p = <<>> THEN 0
    ELSE (IF Head(p) = SEP THEN 1 ELSE 0) + CountSep(Tail(p))

\* index of the last separator of p, 0 when there is none  (p.rfind(sep) + 1)
RECURSIVE RFindSep(_)
RFindSep(p) ==
    IF p = <<>> THEN 0
    ELSE IF p[Len(p)] = SEP THEN Len(p)
    ELSE RFindSep(SubSeq(p, 1, Len(p) - 1))

RECURSIVE RStripSep(_)
RStripSep(p) ==
    IF p # <<>> /\ p[Len(p)] = SEP THEN RStripSep(SubSeq(p, 1, Len(p) - 1)) ELSE p

AllSep(p) == \A n \in 1..Len(p) : p[n] = SEP

PathJoin(a, b) ==
    IF b # <<>> /\ Head(b) = SEP THEN b
    ELSE IF a = <<>> \/ a[Len(a)] = SEP THEN a \o b
    ELSE a \o <<SEP>> \o b

DirName(p) ==
    LET head == SubSeq(p, 1, RFindSep(p))
    IN  IF head # <<>> /\ ~AllSep(head) THEN RStripSep(head) ELSE head

\* os.path.basename(p)
BaseName(p) == SubSeq(p, RFindSep(p) + 1, Len(p))

IsPrefix(a, b) == Len(a) <= Len(b) /\ SubSeq(b, 1, Len(a)) = a

(***************************************************************************)
(* The disk.  A directory is identified by the sequence of names leading   *)
(* to it; its listing gives sub-directory names and files in listing       *)
(* order.  A file whose size cannot be read has ok = FALSE.                *)
(***************************************************************************)
File(name, size, ok) == [name |-> name, size |-> size, ok |-> ok]

NoDir == [dirs |-> <<>>, files |-> <<>>]

FS1 ==
    ( <<>>                            :> [dirs |-> << <<"r">> >>, files |-> <<>>] ) @@
    ( << <<"r">> >>                   :> [dirs |-> << <<"a">> >>, files |-> <<>>] ) @@
    ( << <<"r">>, <<"a">> >>          :> [dirs |-> << <<"b">> >>,
                                          files |-> << File(<<"f", "1">>, 100, TRUE) >>] ) @@
    ( << <<"r">>, <<"a">>, <<"b">> >> :> [dirs |-> <<>>,
                                          files |-> << File(<<"f", "2">>, 50, TRUE) >>] )

FS2 ==
    ( <<>>                            :> [dirs |-> << <<"r">> >>,
                                          files |-> << File(<<"f", "0">>, 7, TRUE) >>] ) @@
    ( << <<"r">> >>                   :> [dirs |-> << <<"a">>, <<"c">> >>, files |-> <<>>] ) @@
    ( << <<"r">>, <<"a">> >>          :> [dirs |-> <<>>,
                                          files |-> << File(<<"f", "1">>, 3, TRUE) >>] ) @@
    ( << <<"r">>, <<"c">> >>          :> [dirs |-> <<>>,
                                          files |-> << File(<<"f", "3">>, 2, TRUE),
                                                       File(<<"F", "4">>, 9, FALSE) >>] )

\* The names between the separators of a path: the key of its directory.
RECURSIVE SplitNames(_, _)
SplitNames(p, cur) ==
    IF p = <<>> THEN (IF cur = <<>> THEN <<>> ELSE <<cur>>)
    ELSE IF Head(p) = SEP
         THEN (IF cur = <<>> THEN <<>> ELSE <<cur>>) \o SplitNames(Tail(p), <<>>)
         ELSE SplitNames(Tail(p), Append(cur, Head(p)))

DirKey(p) == SplitNames(p, <<>>)

(***************************************************************************)
(* The file operations of rename_item, delete_selected and paste_to_path,  *)
(* on a disk d (a function from directory keys to listings).               *)
(***************************************************************************)
ParentKey(p) == DirKey(DirName(p))

IsDirOn(d, p) == p # <<>> /\ Head(p) = SEP /\ DirKey(p) \in DOMAIN d

IsFileOn(d, p) ==
    /\ p # <<>> /\ Head(p) = SEP /\ BaseName(p) # <<>>
    /\ ParentKey(p) \in DOMAIN d
    /\ \E n \in 1..Len(d[ParentKey(p)].files) : d[ParentKey(p)].files[n].name = BaseName(p)

\* os.path.exists
ExistsOn(d, p) == IsDirOn(d, p) \/ IsFileOn(d, p)

\* shutil.rmtree(p) of a directory, os.remove(p) of a file
RemoveOn(d, p) ==
    IF IsDirOn(d, p)
    THEN [key \in {x \in DOMAIN d : ~IsPrefix(DirKey(p), x)} |->
             IF key = ParentKey(p)
             THEN [d[key] EXCEPT !.dirs = SelectSeq(@, LAMBDA name : name # BaseName(p))]
             ELSE d[key]]
    ELSE [d EXCEPT ![ParentKey(p)].files =
                       SelectSeq(@, LAMBDA file : file.name # BaseName(p))]

\* os.rename(p, target) of a file or a directory within its parent directory;
\* target does not exist.
RenameOn(d, p, target) ==
    IF IsDirOn(d, p)
    THEN LET old   == DirKey(p)
             new   == DirKey(target)
             To(x) == IF IsPrefix(old, x) THEN new \o SubSeq(x, Len(old) + 1, Len(x)) ELSE x
             Of(y) == IF IsPrefix(new, y) THEN old \o SubSeq(y, Len(new) + 1, Len(y)) ELSE y
         IN  [key \in {To(x) : x \in DOMAIN d} |->
                 IF key = ParentKey(p)
                 THEN [d[key] EXCEPT !.dirs =
                          [n \in 1..Len(@) |-> IF @[n] = BaseName(p) THEN BaseName(target)
                                                                     ELSE @[n]]]
                 ELSE d[Of(key)]]
    ELSE [d EXCEPT ![ParentKey(p)].files =
                       [n \in 1..Len(@) |-> IF @[n].name = BaseName(p)
                                            THEN [@[n] EXCEPT !.name = BaseName(target)]
                                            ELSE @[n]]]

\* shutil.copy2(src, target) of a file into an existing directory
CopyFileOn(d, src, target) ==
    LET file == CHOOSE f \in Range(d[ParentKey(src)].files) : f.name = BaseName(src)
    IN  [d EXCEPT ![ParentKey(target)].files =
                      Append(@, [file EXCEPT !.name = BaseName(target)])]

\* shutil.move(src, target) of a file
MoveFileOn(d, src, target) == RemoveOn(CopyFileOn(d, src, target), src)

\* The disks the file operations of the model lead to, written out:
\* FS3 is FS1 after rmtree of /r/a/b; FS4, FS5 and FS6 are FS3 after the
\* rename of /r/a/f1 to /r/a/g, after the copy of /r/a/f1 to /r/f1 and after
\* its move to /r/f1.
FS3 ==
    ( <<>>                            :> [dirs |-> << <<"r">> >>, files |-> <<>>] ) @@
    ( << <<"r">> >>                   :> [dirs |-> << <<"a">> >>, files |-> <<>>] ) @@
    ( << <<"r">>, <<"a">> >>          :> [dirs |-> <<>>,
                                          files |-> << File(<<"f", "1">>, 100, TRUE) >>] )

FS4 ==
    ( <<>>                            :> [dirs |-> << <<"r">> >>, files |-> <<>>] ) @@
    ( << <<"r">> >>                   :> [dirs |-> << <<"a">> >>, files |-> <<>>] ) @@
    ( << <<"r">>, <<"a">> >>          :> [dirs |-> <<>>,
                                          files |-> << File(<<"g">>, 100, TRUE) >>] )

FS5 ==
    ( <<>>                            :> [dirs |-> << <<"r">> >>, files |-> <<>>] ) @@
    ( << <<"r">> >>                   :> [dirs |-> << <<"a">> >>,
                                          files |-> << File(<<"f", "1">>, 100, TRUE) >>] ) @@
    ( << <<"r">>, <<"a">> >>          :> [dirs |-> <<>>,
                                          files |-> << File(<<"f", "1">>, 100, TRUE) >>] )

FS6 ==
    ( <<>>                            :> [dirs |-> << <<"r">> >>, files |-> <<>>] ) @@
    ( << <<"r">> >>                   :> [dirs |-> << <<"a">> >>,
                                          files |-> << File(<<"f", "1">>, 100, TRUE) >>] ) @@
    ( << <<"r">>, <<"a">> >>          :> [dirs |-> <<>>, files |-> <<>>] )

FileSystems == <<FS1, FS2, FS3, FS4, FS5, FS6>>

\* The disks a behaviour starts on.
StartDisks == {1, 2}

\* The number of disk d among the disks of the model, 0 when it is none of them.
DiskNumber(d) ==
    IF \E n \in 1..Len(FileSystems) : FileSystems[n] = d
    THEN CHOOSE n \in 1..Len(FileSystems) : FileSystems[n] = d
    ELSE 0

IsDir(f, p) == p # <<>> /\ Head(p) = SEP /\ DirKey(p) \in DOMAIN FileSystems[f]

Listing(f, p) == IF IsDir(f, p) THEN FileSystems[f][DirKey(p)] ELSE NoDir

\* os.walk(top), top-down: (dirpath, dirnames, files) of top, then of each
\* sub-directory in listing order.
RECURSIVE Walk(_, _)
RECURSIVE WalkSubs(_, _, _)
Walk(f, top) ==
    IF ~IsDir(f, top) THEN <<>>
    ELSE << [dirpath |-> top,
             dirs    |-> Listing(f, top).dirs,
             files   |-> Listing(f, top).files] >>
         \o WalkSubs(f, top, Listing(f, top).dirs)
WalkSubs(f, top, ds) ==
    IF ds = <<>> THEN <<>>
    ELSE Walk(f, PathJoin(top, Head(ds))) \o WalkSubs(f, top, Tail(ds))

\* The directories the user can choose as root.
Roots == { <<SEP>>, <<SEP, "r">> }

\* The walks, computed once.
WalkTable == [f \in 1..Len(FileSystems) |-> [top \in Roots |-> Walk(f, top)]]

(***************************************************************************)
(* Dictionaries are functions; signal events are records of one shape.     *)
(***************************************************************************)
EmptyDict == <<>>

DictPut(m, k, v) == [x \in (DOMAIN m) \cup {k} |-> IF x = k THEN v ELSE m[x]]

DictGet(m, k, default) == IF k \in DOMAIN m THEN m[k] ELSE default

Ev(sig, id, path, n, list) ==
    [sig |-> sig, id |-> id, path |-> path, n |-> n, list |-> list]

Suffix(s, n) == SubSeq(s, n + 1, Len(s))

(***************************************************************************)
(* FolderSizeWorker.                                                       *)
(*   pc = "walk"   : at "if not self._running" of directory walk[i]        *)
(*   pc = "files"  : at "if not self._running" of file j of directory i    *)
(*   pc = "rollup" : at "if not self._running" of folders_sorted[k]        *)
(*   pc = "finished": run() has returned                                   *)
(* out is the history of the signals the worker has emitted.               *)
(***************************************************************************)
NewSizeWorker(id, root_path, f) ==
    [id |-> id, root_path |-> root_path, fsid |-> f, running |-> TRUE,
     pc |-> "walk", i |-> 1, j |-> 1, s |-> 0,
     folders |-> <<>>, sizes |-> EmptyDict,
     sorted |-> <<>>, totals |-> EmptyDict, k |-> 1, out |-> <<>>]

\* sorted(folders, key=lambda p: p.count(os.sep), reverse=True): a stable sort,
\* equal keys keep their order.
RECURSIVE InsertByDepth(_, _)
InsertByDepth(sorted, p) ==
    IF sorted = <<>> THEN <<p>>
    ELSE IF CountSep(Head(sorted)) >= CountSep(p)
         THEN <<Head(sorted)>> \o InsertByDepth(Tail(sorted), p)
         ELSE <<p>> \o sorted

RECURSIVE SortByDepthDesc(_)
SortByDepthDesc(folders) ==
    IF folders = <<>> THEN <<>>
    ELSE InsertByDepth(SortByDepthDesc(SubSeq(folders, 1, Len(folders) - 1)),
                       folders[Len(folders)])

\* The walk of the worker's root, as os.walk produces it.
SizeWalk(w) == WalkTable[w.fsid][w.root_path]

\* "finally: self.done.emit()" of the rollup's try block, then run() returns.
SizeEmitDone(w) ==
    [w EXCEPT !.pc = "finished", !.out = Append(@, Ev("size_done", w.id, <<>>, 0, <<>>))]

\* Loop bookkeeping that reads no flag: a directory whose files are exhausted
\* stores its sum and the walk moves on; an exhausted walk sorts the folders and
\* enters the rollup; an exhausted rollup emits done.
RECURSIVE SizeAdvance(_)
SizeAdvance(w) ==
    IF w.pc = "files" /\ w.j > Len(SizeWalk(w)[w.i].files)
    THEN SizeAdvance([w EXCEPT !.sizes = DictPut(@, SizeWalk(w)[w.i].dirpath, w.s),
                               !.pc = "walk", !.i = @ + 1])
    ELSE IF w.pc = "walk" /\ w.i > Len(SizeWalk(w))
    THEN SizeAdvance([w EXCEPT !.pc = "rollup", !.k = 1,
                               !.sorted = SortByDepthDesc(w.folders),
                               !.totals = w.sizes])
    ELSE IF w.pc = "rollup" /\ w.k > Len(w.sorted)
    THEN SizeEmitDone(w)
    ELSE w

\* "if not self._running: return" in the walk (lines 273-274, 279-280): the
\* first try block has no finally, run() returns at once.
SizeStopInWalk(w) == [w EXCEPT !.pc = "finished"]

\* "if not self._running: return" in the rollup (lines 297-298): the finally
\* clause of the enclosing try emits done.
SizeStopInRollup(w) == SizeEmitDone(w)

\* One rollup iteration (lines 299-304).
SizeRollupOne(w) ==
    LET d      == w.sorted[w.k]
        parent == DirName(d)
        totals == IF parent \in DOMAIN w.totals
                  THEN [w.totals EXCEPT ![parent] = @ + DictGet(w.totals, d, 0)]
                  ELSE w.totals
    IN  [w EXCEPT !.totals = totals,
                  !.k = @ + 1,
                  !.out = @ \o << Ev("folder_done", w.id, d, DictGet(totals, d, 0), <<>>),
                                  Ev("size_progress", w.id, d, w.k, <<>>) >>]

\* A file loop in which the failure of getsize leaves the directory's loop
\* and its sum is not stored.
SizeOneFileRaises(w) ==
    LET file == SizeWalk(w)[w.i].files[w.j]
    IN  IF file.ok THEN [w EXCEPT !.s = @ + file.size, !.j = @ + 1]
        ELSE [w EXCEPT !.pc = "walk", !.i = @ + 1]

\* lines 281-284: the size of one file is added; a file whose size cannot be
\* read raises in getsize and adds nothing
SizeOneFile(w) ==
    LET file == SizeWalk(w)[w.i].files[w.j]
    IN  [w EXCEPT !.s = IF file.ok THEN @ + file.size ELSE @,
                  !.j = @ + 1]

\* run(), from one read of _running to the next.
FolderSizeWorker_run(w) ==
    IF w.pc = "walk" THEN
        IF ~w.running THEN SizeStopInWalk(w)
        ELSE SizeAdvance([w EXCEPT !.folders = Append(@, SizeWalk(w)[w.i].dirpath),
                                   !.s = 0, !.j = 1, !.pc = "files"])
    ELSE IF w.pc = "files" THEN
        IF ~w.running THEN SizeStopInWalk(w)
        ELSE SizeAdvance(SizeOneFile(w))
    ELSE IF w.pc = "rollup" THEN
        IF ~w.running THEN SizeStopInRollup(w)
        ELSE SizeAdvance(SizeRollupOne(w))
    ELSE w

SizeIsRunning(w) == w.pc # "finished"

RECURSIVE SizeRunToEnd(_)
SizeRunToEnd(w) == IF SizeIsRunning(w) THEN SizeRunToEnd(FolderSizeWorker_run(w)) ELSE w

(***************************************************************************)
(* str.lower() and the substring test "needle in name".                    *)
(***************************************************************************)
LowerChar(c) ==
    CASE c = "A" -> "a"
      [] c = "B" -> "b"
      [] c = "F" -> "f"
      [] c = "R" -> "r"
      [] OTHER   -> c

Lower(str) == [n \in 1..Len(str) |-> LowerChar(str[n])]

\* Python's "x in y" for strings: some slice of y equals x; true for x = "".
Contains(str, needle) ==
    \E n \in 0..(Len(str) - Len(needle)) : SubSeq(str, n + 1, n + Len(needle)) = needle

FileNames(files) == [n \in 1..Len(files) |-> files[n].name]

(***************************************************************************)
(* SearchWorker, lines 175-209.                                            *)
(*   pc = "walk"  : at "if not self._running" of directory walk[i]         *)
(*   pc = "names" : at "if not self._running" of name j of (dirs + files)  *)
(***************************************************************************)
ProgressEvery == 500

NewSearchWorker(id, root_path, needle, f) ==
    [id |-> id, root_path |-> root_path, fsid |-> f, needle |-> Lower(needle),
     running |-> TRUE, pc |-> "walk", i |-> 1, j |-> 1, count |-> 0,
     results |-> <<>>, out |-> <<>>]

SearchWalk(w) == WalkTable[w.fsid][w.root_path]

\* The names of a directory with the files ahead of the sub-directories.
SearchNamesFilesFirst(w) ==
    FileNames(SearchWalk(w)[w.i].files) \o SearchWalk(w)[w.i].dirs

SearchNames(w) == SearchWalk(w)[w.i].dirs \o FileNames(SearchWalk(w)[w.i].files)

\* line 209: self.done.emit(self.results), then run() returns
SearchEmitDone(w) ==
    [w EXCEPT !.pc = "finished",
              !.out = Append(@, Ev("search_done", w.id, <<>>, 0, w.results))]

RECURSIVE SearchAdvance(_)
SearchAdvance(w) ==
    IF w.pc = "names" /\ w.j > Len(SearchNames(w))
    THEN SearchAdvance([w EXCEPT !.pc = "walk", !.i = @ + 1])
    ELSE IF w.pc = "walk" /\ w.i > Len(SearchWalk(w))
    THEN SearchEmitDone(w)
    ELSE w

\* A stop that returns from run() at once, as FolderSizeWorker's walk does.
SearchStopReturns(w) == [w EXCEPT !.pc = "finished"]

\* "if not self._running: break" (lines 194-195, 197-198): both loops are
\* left and line 209 emits done.
SearchStop(w) == SearchEmitDone(w)

\* The loop body with the name compared as it is spelled.
SearchOneNameAsSpelled(w) ==
    LET name  == SearchNames(w)[w.j]
        full  == PathJoin(SearchWalk(w)[w.i].dirpath, name)
        hit   == Contains(name, w.needle)
    IN  [w EXCEPT !.count = @ + 1,
                  !.j = @ + 1,
                  !.results = IF hit THEN Append(@, full) ELSE @,
                  !.out = @ \o (IF hit THEN <<Ev("found", w.id, full, 0, <<>>)>> ELSE <<>>)]

\* lines 199-206 for one name
SearchOneName(w) ==
    LET name  == SearchNames(w)[w.j]
        full  == PathJoin(SearchWalk(w)[w.i].dirpath, name)
        count == w.count + 1
        hit   == Contains(Lower(name), w.needle)
    IN  [w EXCEPT !.count = count,
                  !.j = @ + 1,
                  !.results = IF hit THEN Append(@, full) ELSE @,
                  !.out = @ \o (IF hit THEN <<Ev("found", w.id, full, 0, <<>>)>> ELSE <<>>)
                            \o (IF count % ProgressEvery = 0
                                THEN <<Ev("search_progress", w.id,
                                          SearchWalk(w)[w.i].dirpath, count, <<>>)>>
                                ELSE <<>>)]

SearchWorker_run(w) ==
    IF w.pc = "walk" THEN
        IF ~w.running THEN SearchStop(w)
        ELSE SearchAdvance([w EXCEPT !.pc = "names", !.j = 1])
    ELSE IF w.pc = "names" THEN
        IF ~w.running THEN SearchStop(w)
        ELSE SearchAdvance(SearchOneName(w))
    ELSE w

SearchIsRunning(w) == w.pc # "finished"

RECURSIVE SearchRunToEnd(_)
SearchRunToEnd(w) ==
    IF SearchIsRunning(w) THEN SearchRunToEnd(SearchWorker_run(w)) ELSE w

(***************************************************************************)
(* ExpandAllThread, lines 212-253.                                         *)
(*   pc = "walk" : at "if not self._running" of directory walk[i]          *)
(*   pc = "dirs" : at "if not self._running" of sub-directory j            *)
(* BatchSize stands for batch_size=1000 (line 961), scaled to the disk of  *)
(* the model so that a run emits more than one batch.                      *)
(***************************************************************************)
BatchSize == 2

NewExpandThread(id, root_path, f) ==
    [id |-> id, root_path |-> root_path, fsid |-> f, running |-> TRUE,
     pc |-> "walk", i |-> 1, j |-> 1, batch |-> <<>>, out |-> <<>>]

ExpandWalk(w) == WalkTable[w.fsid][w.root_path]

\* A thread that ends with done and leaves the rest of its batch unsent.
ExpandDoneOnly(w) ==
    [w EXCEPT !.pc = "finished",
              !.out = Append(@, Ev("expand_done", w.id, <<>>, 0, <<>>))]

\* lines 242-250: the rest of the batch is emitted if there is one, then done
ExpandEmitDone(w) ==
    [w EXCEPT !.pc = "finished",
              !.batch = <<>>,
              !.out = @ \o (IF w.batch # <<>>
                            THEN <<Ev("batch", w.id, <<>>, 0, w.batch)>> ELSE <<>>)
                        \o <<Ev("expand_done", w.id, <<>>, 0, <<>>)>>]

RECURSIVE ExpandAdvance(_)
ExpandAdvance(w) ==
    IF w.pc = "dirs" /\ w.j > Len(ExpandWalk(w)[w.i].dirs)
    THEN ExpandAdvance([w EXCEPT !.pc = "walk", !.i = @ + 1])
    ELSE IF w.pc = "walk" /\ w.i > Len(ExpandWalk(w))
    THEN ExpandEmitDone(w)
    ELSE w

\* "if not self._running: break" (lines 228-229, 231-232)
ExpandStop(w) == ExpandEmitDone(w)

\* lines 233-241 for one sub-directory
ExpandOneDir(w) ==
    LET batch == Append(w.batch,
                        PathJoin(ExpandWalk(w)[w.i].dirpath, ExpandWalk(w)[w.i].dirs[w.j]))
        full  == Len(batch) >= BatchSize
    IN  [w EXCEPT !.j = @ + 1,
                  !.batch = IF full THEN <<>> ELSE batch,
                  !.out = IF full THEN Append(@, Ev("batch", w.id, <<>>, 0, batch)) ELSE @]

ExpandAllThread_run(w) ==
    IF w.pc = "walk" THEN
        IF ~w.running THEN ExpandStop(w)
        ELSE ExpandAdvance([w EXCEPT !.pc = "dirs", !.j = 1])
    ELSE IF w.pc = "dirs" THEN
        IF ~w.running THEN ExpandStop(w)
        ELSE ExpandAdvance(ExpandOneDir(w))
    ELSE w

ExpandIsRunning(w) == w.pc # "finished"

(***************************************************************************)
(* The QFileSystemModel.  model.index(path) is valid once the model has    *)
(* the node of the path; the model fills itself in the background, so the  *)
(* paths of LazyPaths become valid at some time or never.                  *)
(***************************************************************************)
LazyPaths == { <<SEP, "r", SEP, "a">> }

IndexValid(path) == path \notin LazyPaths \/ path \in loaded

ModelLoad(path) ==
    /\ gui_pc = "idle"
    /\ path \in LazyPaths \ loaded
    /\ loaded' = loaded \cup {path}
    /\ UNCHANGED <<diskVars, root, settings, evq, gui_pc, sizeVars, searchVars, expandVars>>

(***************************************************************************)
(* MainWindow: the slots.  The data the GUI thread owns is passed as a     *)
(* record, so that a slot is a function from it and the delivered event    *)
(* to its new value.                                                       *)
(***************************************************************************)
\* The record of a navigation: the needle in the search field and the needle
\* the match at position pos was found for.
NoMatch == [needle |-> <<>>, found_for |-> <<>>]

Shows(needle, needles, pos) == [needle |-> needle, found_for |-> needles[pos + 1]]

Gui ==
    [folder_sizes |-> folder_sizes, sizes_src |-> sizes_src,
     size_refusals |-> size_refusals,
     matches |-> matches, match_pos |-> match_pos, matches_root |-> matches_root,
     matches_needle |-> matches_needle, shown |-> shown,
     search_errors |-> search_errors,
     expand_queue |-> expand_queue, queue_src |-> queue_src,
     expand_attempts |-> expand_attempts, lookups |-> lookups,
     expanded |-> expanded]

SetGui(g) ==
    /\ folder_sizes' = g.folder_sizes
    /\ sizes_src' = g.sizes_src
    /\ size_refusals' = g.size_refusals
    /\ matches' = g.matches
    /\ match_pos' = g.match_pos
    /\ matches_root' = g.matches_root
    /\ matches_needle' = g.matches_needle
    /\ shown' = g.shown
    /\ search_errors' = g.search_errors
    /\ expand_queue' = g.expand_queue
    /\ queue_src' = g.queue_src
    /\ expand_attempts' = g.expand_attempts
    /\ lookups' = g.lookups
    /\ expanded' = g.expanded

\* A slot that adds the size to the entry the table has for the path.
on_folder_size_adds(g, ev) ==
    [g EXCEPT !.folder_sizes = DictPut(@, ev.path, DictGet(@, ev.path, 0) + ev.n),
              !.sizes_src    = DictPut(@, ev.path, ev.id)]

\* on_folder_size_done(folder_path, size_bytes), lines 1087-1093
on_folder_size_done(g, ev) ==
    [g EXCEPT !.folder_sizes = DictPut(@, ev.path, ev.n),
              !.sizes_src    = DictPut(@, ev.path, ev.id)]

\* _on_search_found(path), lines 900-908
on_search_found(g, ev) ==
    IF IndexValid(ev.path)
    THEN [g EXCEPT !.matches = Append(@, ev.path),
                   !.matches_root = Append(@, searchW[ev.id].root_path),
                   !.matches_needle = Append(@, searchW[ev.id].needle)]
    ELSE g

\* _on_search_done(results), lines 910-921.  With no valid index among the
\* results, matches[0] raises after matches and match_pos are assigned; the
\* IndexError is counted in search_errors.
on_search_done(g, ev) ==
    IF ev.list # <<>>
    THEN LET found == SelectSeq(ev.list, IndexValid)
         IN  [g EXCEPT !.matches = found,
                       !.match_pos = 0,
                       !.matches_root = [n \in 1..Len(found) |-> searchW[ev.id].root_path],
                       !.matches_needle = [n \in 1..Len(found) |-> searchW[ev.id].needle],
                       !.shown = NoMatch,
                       !.search_errors = IF found = <<>> THEN @ + 1 ELSE @]
    ELSE g

\* on_expand_batch_received(batch), lines 969-976
on_expand_batch_received(g, ev) ==
    [g EXCEPT !.expand_queue = @ \o ev.list,
              !.queue_src = @ \o [n \in 1..Len(ev.list) |-> ev.id]]

\* on_size_progress, on_size_done, on_expand_done_thread and the search
\* progress lambda only set the status widgets.
Slot(g, ev) ==
    CASE ev.sig = "folder_done" -> on_folder_size_done(g, ev)
      [] ev.sig = "found"       -> on_search_found(g, ev)
      [] ev.sig = "search_done" -> on_search_done(g, ev)
      [] ev.sig = "batch"       -> on_expand_batch_received(g, ev)
      [] OTHER                  -> g

\* The events whose slots change data of MainWindow; the others are not
\* queued in the model.
Posted(events) ==
    SelectSeq(events,
              LAMBDA ev : ev.sig \in {"folder_done", "found", "search_done", "batch"})

\* QCoreApplication.processEvents(): every posted event is delivered, in order.
RECURSIVE ProcessEvents(_, _)
ProcessEvents(g, q) == IF q = <<>> THEN g ELSE ProcessEvents(Slot(g, Head(q)), Tail(q))

\* expand_to_index(idx), lines 814-832: the parent of a match is a valid index,
\* so processEvents() is called at least once; what follows it in the callers
\* (scrollTo, setCurrentIndex of the local idx) writes no data of MainWindow.
expand_to_index(g, q) == ProcessEvents(g, q)

\* The slots that call processEvents() after their assignments:
\* on_expand_batch_received (line 976), and _on_search_done through
\* expand_to_index(self.matches[0]) when a result has a valid index (916-919).
SlotDrains(ev) ==
    \/ ev.sig = "batch"
    \/ ev.sig = "search_done" /\ SelectSeq(ev.list, IndexValid) # <<>>

\* The event loop delivers the oldest posted event to its slot; a slot that
\* calls expand_to_index has the events behind it delivered before it returns.
Deliver ==
    /\ gui_pc = "idle"
    /\ evq # <<>>
    /\ IF SlotDrains(Head(evq))
       THEN /\ SetGui(expand_to_index(Slot(Gui, Head(evq)), Tail(evq)))
            /\ evq' = <<>>
       ELSE /\ SetGui(Slot(Gui, Head(evq)))
            /\ evq' = Tail(evq)
    /\ UNCHANGED <<diskVars, root, settings, loaded, gui_pc, sizeW, size_thread,
                   searchW, search_thread, expandW, expand_thread, expanding,
                   ticks, expand_state>>

(***************************************************************************)
(* The producer threads: each runs to its next read of _running; what it   *)
(* emitted is posted to the GUI thread.                                    *)
(***************************************************************************)
\* A worker whose folder_done signal is connected directly: the slot runs in
\* the worker's thread, in the step that emits.
SizeWorkerStepDirect(id) ==
    /\ SizeIsRunning(sizeW[id])
    /\ LET w2 == FolderSizeWorker_run(sizeW[id])
       IN  /\ sizeW' = [sizeW EXCEPT ![id] = w2]
           /\ SetGui(ProcessEvents(Gui, Posted(Suffix(w2.out, Len(sizeW[id].out)))))
    /\ UNCHANGED <<diskVars, root, settings, loaded, gui_pc, evq, size_thread, searchW,
                   search_thread, expandW, expand_thread, expanding, ticks, expand_state>>

SizeWorkerStep(id) ==
    /\ SizeIsRunning(sizeW[id])
    /\ LET w2 == FolderSizeWorker_run(sizeW[id])
       IN  /\ sizeW' = [sizeW EXCEPT ![id] = w2]
           /\ evq' = evq \o Posted(Suffix(w2.out, Len(sizeW[id].out)))
    /\ UNCHANGED <<diskVars, root, settings, loaded, gui_pc, size_thread, folder_sizes,
                   sizes_src, size_refusals, searchVars, expandVars>>

SearchWorkerStep(id) ==
    /\ SearchIsRunning(searchW[id])
    /\ LET w2 == SearchWorker_run(searchW[id])
       IN  /\ searchW' = [searchW EXCEPT ![id] = w2]
           /\ evq' = evq \o Posted(Suffix(w2.out, Len(searchW[id].out)))
    /\ UNCHANGED <<diskVars, root, settings, loaded, gui_pc, search_thread, matches,
                   match_pos, matches_root, matches_needle, shown, search_errors, sizeVars,
                   expandVars>>

ExpandThreadStep(id) ==
    /\ ExpandIsRunning(expandW[id])
    /\ LET w2 == ExpandAllThread_run(expandW[id])
       IN  /\ expandW' = [expandW EXCEPT ![id] = w2]
           /\ evq' = evq \o Posted(Suffix(w2.out, Len(expandW[id].out)))
    /\ UNCHANGED <<diskVars, root, settings, loaded, gui_pc, expand_thread, expand_queue,
                   queue_src, expand_attempts, expanding, ticks, lookups, expanded,
                   expand_state, sizeVars, searchVars>>

(***************************************************************************)
(* thread.stop() followed by thread.wait(ms): wait returns when the thread *)
(* has finished or after ms milliseconds; joined says which.  The GUI      *)
(* thread delivers no event while it waits.                                *)
(***************************************************************************)
StopPreviousSize(w, joined) ==
    LET stopped == [w EXCEPT !.running = FALSE]
    IN  IF joined THEN SizeRunToEnd(stopped) ELSE stopped

StopPreviousSearch(w, joined) ==
    LET stopped == [w EXCEPT !.running = FALSE]
    IN  IF joined THEN SearchRunToEnd(stopped) ELSE stopped

SizeBusy == size_thread # 0 /\ SizeIsRunning(sizeW[size_thread])

SearchBusy == search_thread # 0 /\ SearchIsRunning(searchW[search_thread])

\* lines 502-507, 862-867: the search workers after the running one is stopped
SearchWAfterStop(joined) ==
    IF SearchBusy
    THEN [searchW EXCEPT ![search_thread] = StopPreviousSearch(@, joined)]
    ELSE searchW

SearchStopEvents(joined) ==
    IF SearchBusy
    THEN Posted(Suffix(SearchWAfterStop(joined)[search_thread].out,
                       Len(searchW[search_thread].out)))
    ELSE <<>>

(***************************************************************************)
(* start_folder_size_scan(root_path), lines 1058-1085; q is the event      *)
(* queue when it is called.                                                *)
(***************************************************************************)
ScanStartsOn(f, root_path) == root_path # <<>> /\ IsDir(f, root_path)

ScanStarts(root_path) == ScanStartsOn(fs, root_path)

SizeWAfterStop(joined) ==
    IF SizeBusy
    THEN [sizeW EXCEPT ![size_thread] = StopPreviousSize(@, joined)]
    ELSE sizeW

SizeStopEvents(joined) ==
    IF SizeBusy
    THEN Posted(Suffix(SizeWAfterStop(joined)[size_thread].out,
                       Len(sizeW[size_thread].out)))
    ELSE <<>>

\* A scan that, refused for an invalid root, stops the running worker and
\* clears the table all the same.
scan_refusal_clears(f, root_path, joined, g, q) ==
    IF ~ScanStartsOn(f, root_path)
    THEN /\ evq' = q \o SizeStopEvents(joined)
         /\ SetGui([g EXCEPT !.size_refusals = @ + 1,
                             !.folder_sizes = EmptyDict, !.sizes_src = EmptyDict])
         /\ sizeW' = SizeWAfterStop(joined)
         /\ UNCHANGED size_thread
    ELSE /\ evq' = q \o SizeStopEvents(joined)
         /\ SetGui([g EXCEPT !.folder_sizes = EmptyDict, !.sizes_src = EmptyDict])
         /\ sizeW' = Append(SizeWAfterStop(joined),
                            NewSizeWorker(Len(sizeW) + 1, root_path, f))
         /\ size_thread' = Len(sizeW) + 1

\* f is the disk when the function is called
start_folder_size_scan_on(f, root_path, joined, g, q) ==
    IF ~ScanStartsOn(f, root_path)
    THEN /\ evq' = q
         /\ SetGui([g EXCEPT !.size_refusals = @ + 1])
         /\ UNCHANGED <<sizeW, size_thread>>
    ELSE /\ evq' = q \o SizeStopEvents(joined)
         /\ SetGui([g EXCEPT !.folder_sizes = EmptyDict, !.sizes_src = EmptyDict])
         /\ sizeW' = Append(SizeWAfterStop(joined),
                            NewSizeWorker(Len(sizeW) + 1, root_path, f))
         /\ size_thread' = Len(sizeW) + 1

start_folder_size_scan(root_path, joined, g, q) ==
    start_folder_size_scan_on(fs, root_path, joined, g, q)

\* on_browse, lines 485-510: the dialog returns the directory p.
on_browse(p, sjoined, joined) ==
    /\ gui_pc = "idle"
    /\ root' = p
    /\ searchW' = SearchWAfterStop(sjoined)
    /\ LET g == [Gui EXCEPT !.matches = <<>>, !.match_pos = -1, !.matches_root = <<>>,
                         !.matches_needle = <<>>, !.shown = NoMatch]
           q == evq \o SearchStopEvents(sjoined)
       IN  IF settings.compute_folder_sizes /\ IsDir(fs, p)
           THEN start_folder_size_scan(p, joined, g, q)
           ELSE /\ evq' = q
                /\ SetGui(g)
                /\ UNCHANGED <<sizeW, size_thread>>
    /\ UNCHANGED <<diskVars, settings, loaded, gui_pc, search_thread, expandW,
                   expand_thread, expanding, ticks, expand_state>>

\* on_settings, lines 512-522: the dialog is accepted with the new settings.
on_settings(new, joined) ==
    /\ gui_pc = "idle"
    /\ settings' = new
    /\ IF new.compute_folder_sizes /\ root # <<>> /\ IsDir(fs, root)
       THEN start_folder_size_scan(root, joined, Gui, evq)
       ELSE /\ evq' = evq
            /\ SetGui(Gui)
            /\ UNCHANGED <<sizeW, size_thread>>
    /\ UNCHANGED <<diskVars, root, loaded, gui_pc, searchW, search_thread, expandW,
                   expand_thread, expanding, ticks, expand_state>>

\* show_computer_view, lines 455-481 ("Refresh" of the context menu)
show_computer_view(sjoined) ==
    /\ gui_pc = "idle"
    /\ root' = <<>>
    /\ searchW' = SearchWAfterStop(sjoined)
    /\ evq' = evq \o SearchStopEvents(sjoined)
    /\ SetGui([Gui EXCEPT !.matches = <<>>, !.match_pos = -1, !.matches_root = <<>>,
                         !.matches_needle = <<>>, !.shown = NoMatch])
    /\ UNCHANGED <<diskVars, settings, loaded, gui_pc, search_thread, sizeW,
                   size_thread, expandVars>>

(***************************************************************************)
(* The file operations.  The user acts on an item the tree shows below its *)
(* root; the selection that is copied or cut is one file, a name conflict  *)
(* of a paste is answered with "skip", and an operation whose result is    *)
(* none of the disks of the model is left out.                             *)
(***************************************************************************)
Selectable == { <<SEP, "r", SEP, "a", SEP, "b">>, <<SEP, "r", SEP, "a", SEP, "f", "1">> }

NewNames == { <<"g">> }

Dests == { <<SEP, "r">> }

Shown(path) ==
    /\ root # <<>>
    /\ path # root
    /\ IsPrefix(DirKey(root), DirKey(path))
    /\ ExistsOn(FileSystems[fs], path)

\* lines 607-614, 637-644, 736-743: the model is reset to the root path and
\* the sizes are computed again if the setting says so; f is the disk now.
refresh_after_change(f, joined) ==
    IF settings.compute_folder_sizes /\ IsDir(f, root)
    THEN start_folder_size_scan_on(f, root, joined, Gui, evq)
    ELSE /\ evq' = evq
         /\ SetGui(Gui)
         /\ UNCHANGED <<sizeW, size_thread>>

\* rename_item, lines 598-616: the dialog is accepted with the name new;
\* fails says that os.rename raises.
rename_item(path, new, fails, joined) ==
    /\ gui_pc = "idle"
    /\ Shown(path)
    /\ new # BaseName(path)
    /\ IF fails
       THEN UNCHANGED <<fs, evq, guiData, sizeW, size_thread>>
       ELSE LET target == PathJoin(DirName(path), new)
                disk   == RenameOn(FileSystems[fs], path, target)
            IN  /\ ~ExistsOn(FileSystems[fs], target)
                /\ DiskNumber(disk) # 0
                /\ fs' = DiskNumber(disk)
                /\ refresh_after_change(DiskNumber(disk), joined)
    /\ UNCHANGED <<clipboard_files, clipboard_mode, root, settings, loaded, gui_pc,
                   searchVars, expandVars>>

\* A deletion that leaves the size table as it is.
delete_without_rescan(path, fails, joined) ==
    /\ gui_pc = "idle"
    /\ Shown(path)
    /\ LET disk == IF fails THEN FileSystems[fs] ELSE RemoveOn(FileSystems[fs], path)
       IN  /\ DiskNumber(disk) # 0
           /\ fs' = DiskNumber(disk)
    /\ UNCHANGED <<clipboard_files, clipboard_mode, root, settings, loaded, evq, gui_pc,
                   sizeVars, searchVars, expandVars>>

\* delete_selected, lines 618-644: the question is answered with Yes; fails
\* says that the removal raises, which is reported and changes nothing.
delete_selected(path, fails, joined) ==
    /\ gui_pc = "idle"
    /\ Shown(path)
    /\ LET disk == IF fails THEN FileSystems[fs] ELSE RemoveOn(FileSystems[fs], path)
       IN  /\ DiskNumber(disk) # 0
           /\ fs' = DiskNumber(disk)
           /\ refresh_after_change(DiskNumber(disk), joined)
    /\ UNCHANGED <<clipboard_files, clipboard_mode, root, settings, loaded, gui_pc,
                   searchVars, expandVars>>

\* copy_selected, lines 647-654
copy_selected(path) ==
    /\ gui_pc = "idle"
    /\ Shown(path)
    /\ IsFileOn(FileSystems[fs], path)
    /\ clipboard_files' = <<path>>
    /\ clipboard_mode' = "copy"
    /\ UNCHANGED <<fs, root, settings, loaded, evq, gui_pc, sizeVars, searchVars,
                   expandVars>>

\* cut_selected, lines 656-663
cut_selected(path) ==
    /\ gui_pc = "idle"
    /\ Shown(path)
    /\ IsFileOn(FileSystems[fs], path)
    /\ clipboard_files' = <<path>>
    /\ clipboard_mode' = "cut"
    /\ UNCHANGED <<fs, root, settings, loaded, evq, gui_pc, sizeVars, searchVars,
                   expandVars>>

\* lines 689-731: the loop over the clipboard
RECURSIVE PasteFiles(_, _, _, _)
PasteFiles(d, files, dest_path, mode) ==
    IF files = <<>> THEN d
    ELSE LET src    == Head(files)
             target == PathJoin(dest_path, BaseName(src))
             d2     == IF ~ExistsOn(d, src) \/ ExistsOn(d, target) THEN d
                       ELSE IF mode = "cut" THEN MoveFileOn(d, src, target)
                       ELSE CopyFileOn(d, src, target)
         IN  PasteFiles(d2, Tail(files), dest_path, mode)

\* paste_to_path, lines 685-745
paste_to_path(dest_path, joined) ==
    /\ gui_pc = "idle"
    /\ root # <<>>
    /\ IsPrefix(DirKey(root), DirKey(dest_path))
    /\ IsDir(fs, dest_path)
    /\ IF clipboard_files = <<>>
       THEN UNCHANGED <<diskVars, evq, guiData, sizeW, size_thread>>
       ELSE LET disk == PasteFiles(FileSystems[fs], clipboard_files, dest_path,
                                   clipboard_mode)
            IN  /\ DiskNumber(disk) # 0
                /\ fs' = DiskNumber(disk)
                /\ clipboard_files' = IF clipboard_mode = "cut" THEN <<>>
                                      ELSE clipboard_files
                /\ clipboard_mode' = IF clipboard_mode = "cut" THEN "none"
                                     ELSE clipboard_mode
                /\ refresh_after_change(DiskNumber(disk), joined)
    /\ UNCHANGED <<root, settings, loaded, gui_pc, searchVars, expandVars>>

(***************************************************************************)
(* Search: find_next, find_prev.  needle is the stripped text of the       *)
(* search field when the handler runs.                                     *)
(***************************************************************************)
Needles == { <<>>, <<"f">>, <<"A">> }

\* find_all_indexes(needle), lines 785-812: a walk on the GUI thread
RECURSIVE MatchesOfNames(_, _, _)
MatchesOfNames(dirpath, names, needle) ==
    IF names = <<>> THEN <<>>
    ELSE (IF Contains(Lower(Head(names)), Lower(needle))
             /\ IndexValid(PathJoin(dirpath, Head(names)))
          THEN <<PathJoin(dirpath, Head(names))>> ELSE <<>>)
         \o MatchesOfNames(dirpath, Tail(names), needle)

RECURSIVE MatchesOfWalk(_, _)
MatchesOfWalk(walk, needle) ==
    IF walk = <<>> THEN <<>>
    ELSE MatchesOfNames(Head(walk).dirpath,
                        Head(walk).dirs \o FileNames(Head(walk).files), needle)
         \o MatchesOfWalk(Tail(walk), needle)

find_all_indexes(needle) ==
    IF root = <<>> THEN <<>> ELSE MatchesOfWalk(Walk(fs, root), needle)

\* find_next, lines 836-882
find_next(needle, joined) ==
    /\ gui_pc = "idle"
    /\ IF needle = <<>>
       THEN UNCHANGED <<evq, guiData, searchW, search_thread>>
       ELSE IF matches # <<>>
       THEN /\ SetGui(expand_to_index(
                   [Gui EXCEPT !.match_pos = (match_pos + 1) % Len(matches),
                               !.shown = Shows(needle, matches_needle,
                                               (match_pos + 1) % Len(matches))], evq))
            /\ evq' = <<>>
            /\ UNCHANGED <<searchW, search_thread>>
       ELSE IF root = <<>> \/ ~IsDir(fs, root)
       THEN UNCHANGED <<evq, guiData, searchW, search_thread>>
       ELSE /\ evq' = evq \o SearchStopEvents(joined)
            /\ SetGui([Gui EXCEPT !.matches = <<>>, !.match_pos = -1,
                                  !.matches_root = <<>>,
                                  !.matches_needle = <<>>, !.shown = NoMatch])
            /\ searchW' = Append(SearchWAfterStop(joined),
                                 NewSearchWorker(Len(searchW) + 1, root, needle, fs))
            /\ search_thread' = Len(searchW) + 1
    /\ UNCHANGED <<diskVars, root, settings, loaded, gui_pc, sizeW, size_thread, expandW,
                   expand_thread, expanding, ticks, expand_state>>

\* find_prev, lines 884-897
find_prev(needle) ==
    /\ gui_pc = "idle"
    /\ IF needle = <<>>
       THEN UNCHANGED <<evq, guiData>>
       ELSE LET g1 == IF matches = <<>>
                      THEN [Gui EXCEPT !.matches = find_all_indexes(needle),
                                       !.match_pos = 0,
                                       !.matches_root =
                                           [n \in 1..Len(find_all_indexes(needle)) |-> root],
                                       !.matches_needle =
                                           [n \in 1..Len(find_all_indexes(needle)) |-> needle]]
                      ELSE Gui
            IN  IF g1.matches = <<>>
                THEN /\ SetGui(g1)
                     /\ evq' = evq
                ELSE /\ SetGui(expand_to_index(
                            [g1 EXCEPT !.match_pos = (@ - 1) % Len(g1.matches),
                                       !.shown = Shows(needle, g1.matches_needle,
                                                       (g1.match_pos - 1) % Len(g1.matches))],
                            evq))
                     /\ evq' = <<>>
    /\ UNCHANGED <<diskVars, root, settings, loaded, gui_pc, searchW, search_thread,
                   sizeW, size_thread, expandW, expand_thread, expanding, ticks,
                   expand_state>>

(***************************************************************************)
(* Expand All: expand_all_async and the timer-driven drain.                *)
(* ticks counts the pending QTimer.singleShot(50, _process_expand_queue_step). *)
(* The drain calls processEvents() and then reads the queue and            *)
(* expand_thread.isRunning(): the producer thread runs between the two, so *)
(* the step has two parts (gui_pc = "tick_check" between them).            *)
(***************************************************************************)
MAX_PER_TICK == 40

MaxAttempts == 8

ExpandBusy == expand_thread # 0 /\ ExpandIsRunning(expandW[expand_thread])

\* expand_all_async, lines 925-967
expand_all_async ==
    /\ gui_pc = "idle"
    /\ IF root = <<>> \/ ~IsDir(fs, root)
       THEN UNCHANGED <<expandVars>>
       ELSE IF expanding
       THEN /\ expandW' = IF ExpandBusy
                          THEN [expandW EXCEPT ![expand_thread].running = FALSE]
                          ELSE expandW
            /\ expand_queue' = <<>>
            /\ queue_src' = <<>>
            /\ expand_attempts' = EmptyDict
            /\ expanding' = FALSE
            /\ expand_state' = "stopped"
            /\ UNCHANGED <<expand_thread, ticks, lookups, expanded>>
       ELSE /\ expand_queue' = <<>>
            /\ queue_src' = <<>>
            /\ expand_attempts' = EmptyDict
            /\ expanding' = TRUE
            /\ expandW' = Append(expandW, NewExpandThread(Len(expandW) + 1, root, fs))
            /\ expand_thread' = Len(expandW) + 1
            /\ ticks' = ticks + 1
            /\ expand_state' = "running"
            /\ lookups' = EmptyDict
            /\ expanded' = EmptyDict
    /\ UNCHANGED <<diskVars, root, settings, loaded, gui_pc, evq, sizeVars, searchVars>>

\* lines 990-1007 for the folder popped from the queue; requeue collects the
\* folders to append after the loop.
ExpandOne(st) ==
    LET folder == Head(st.g.expand_queue)
        src    == Head(st.g.queue_src)
        g1     == [st.g EXCEPT !.expand_queue = Tail(@),
                               !.queue_src = Tail(@),
                               !.lookups = DictPut(@, folder, DictGet(@, folder, 0) + 1)]
        tries  == DictGet(st.g.expand_attempts, folder, 0) + 1
    IN  IF IndexValid(folder)
        THEN [st EXCEPT !.g = [g1 EXCEPT
                  !.expanded = DictPut(@, folder, DictGet(@, folder, 0) + 1),
                  !.expand_attempts = [x \in (DOMAIN @) \ {folder} |-> @[x]]],
                        !.processed = @ + 1]
        ELSE [st EXCEPT !.g = [g1 EXCEPT !.expand_attempts = DictPut(@, folder, tries)],
                        !.processed = @ + 1,
                        !.requeue = IF tries <= MaxAttempts THEN Append(@, folder) ELSE @,
                        !.requeue_src = IF tries <= MaxAttempts THEN Append(@, src) ELSE @]

\* lines 989-1011: the while loop, then the requeued folders go to the tail
RECURSIVE ExpandLoop(_)
ExpandLoop(st) ==
    IF st.g.expand_queue # <<>> /\ st.processed < MAX_PER_TICK
    THEN ExpandLoop(ExpandOne(st))
    ELSE [st.g EXCEPT !.expand_queue = @ \o st.requeue,
                      !.queue_src = @ \o st.requeue_src]

\* _process_expand_queue_step up to processEvents(), lines 978-1016
process_expand_queue_step ==
    /\ gui_pc = "idle"
    /\ ticks > 0
    /\ ticks' = ticks - 1
    /\ IF ~expanding
       THEN UNCHANGED <<evq, gui_pc, guiData>>
       ELSE /\ SetGui(ProcessEvents(
                  ExpandLoop([g |-> Gui, processed |-> 0,
                              requeue |-> <<>>, requeue_src |-> <<>>]), evq))
            /\ evq' = <<>>
            /\ gui_pc' = "tick_check"
    /\ UNCHANGED <<diskVars, root, settings, loaded, sizeW, size_thread, searchW,
                   search_thread, expandW, expand_thread, expanding, expand_state>>

\* A drain that finalizes when it can and otherwise schedules no further tick.
CheckWithoutReschedule ==
    /\ gui_pc = "tick_check"
    /\ gui_pc' = "idle"
    /\ IF expand_queue # <<>> \/ ExpandBusy
       THEN UNCHANGED <<ticks, expanding, expand_state>>
       ELSE /\ expanding' = FALSE
            /\ expand_state' = "finalized"
            /\ UNCHANGED ticks
    /\ UNCHANGED <<diskVars, root, settings, loaded, evq, guiData, sizeW, size_thread,
                   searchW, search_thread, expandW, expand_thread>>

\* the rest of _process_expand_queue_step, lines 1018-1023, and
\* _finalize_expansion, lines 1025-1035
process_expand_queue_check ==
    /\ gui_pc = "tick_check"
    /\ gui_pc' = "idle"
    /\ IF expand_queue # <<>> \/ ExpandBusy
       THEN /\ ticks' = ticks + 1
            /\ UNCHANGED <<expanding, expand_state>>
       ELSE /\ expanding' = FALSE
            /\ expand_state' = "finalized"
            /\ UNCHANGED ticks
    /\ UNCHANGED <<diskVars, root, settings, loaded, evq, guiData, sizeW, size_thread,
                   searchW, search_thread, expandW, expand_thread>>

(***************************************************************************)
(* The state after MainWindow.__init__ (show_computer_view has run): no    *)
(* root, no thread; the settings are those of settings.json.               *)
(***************************************************************************)
Settings == [compute_folder_sizes : BOOLEAN]

Init ==
    /\ fs \in StartDisks
    /\ clipboard_files = <<>>
    /\ clipboard_mode = "none"
    /\ root = <<>>
    /\ settings \in Settings
    /\ loaded = {}
    /\ evq = <<>>
    /\ gui_pc = "idle"
    /\ sizeW = <<>>
    /\ size_thread = 0
    /\ folder_sizes = EmptyDict
    /\ sizes_src = EmptyDict
    /\ size_refusals = 0
    /\ searchW = <<>>
    /\ search_thread = 0
    /\ matches = <<>>
    /\ match_pos = -1
    /\ matches_root = <<>>
    /\ matches_needle = <<>>
    /\ shown = NoMatch
    /\ search_errors = 0
    /\ expandW = <<>>
    /\ expand_thread = 0
    /\ expand_queue = <<>>
    /\ queue_src = <<>>
    /\ expand_attempts = EmptyDict
    /\ expanding = FALSE
    /\ ticks = 0
    /\ lookups = EmptyDict
    /\ expanded = EmptyDict
    /\ expand_state = "idle"

\* The bounds cap the number of thread objects a behaviour creates.
ScansBounded == Len(sizeW') <= MaxScans

SearchesBounded == Len(searchW') <= MaxSearches

ExpandsBounded(extra) == Len(expandW') <= MaxExpands + extra

\* Folder sizes: root changes with size tracking on or off.
NextSize ==
    \/ \E p \in Roots, joined \in BOOLEAN : on_browse(p, FALSE, joined) /\ ScansBounded
    \/ \E id \in 1..Len(sizeW) : SizeWorkerStep(id)
    \/ Deliver

SpecSize == Init /\ [][NextSize]_vars

\* Folder sizes and the file operations: root changes, the settings dialog,
\* rename, delete, copy, cut and paste.  The user browses to the directory
\* the file operations act in.
FileOpRoots == { <<SEP, "r">> }

NextFileOps ==
    \/ \E p \in FileOpRoots, joined \in BOOLEAN : on_browse(p, FALSE, joined) /\ ScansBounded
    \/ \E new \in Settings, joined \in BOOLEAN : on_settings(new, joined) /\ ScansBounded
    \/ show_computer_view(FALSE)
    \/ \E path \in Selectable, new \in NewNames, fails, joined \in BOOLEAN :
          rename_item(path, new, fails, joined) /\ ScansBounded
    \/ \E path \in Selectable, fails, joined \in BOOLEAN :
          delete_selected(path, fails, joined) /\ ScansBounded
    \/ \E path \in Selectable : copy_selected(path)
    \/ \E path \in Selectable : cut_selected(path)
    \/ \E dest_path \in Dests, joined \in BOOLEAN :
          paste_to_path(dest_path, joined) /\ ScansBounded
    \/ \E id \in 1..Len(sizeW) : SizeWorkerStep(id)
    \/ Deliver

SpecFileOps == Init /\ [][NextFileOps]_vars

\* start_folder_size_scan on its own: called with any path, an empty one, a
\* file and a missing one included.
MaxRefusals == 2    \* refused calls of start_folder_size_scan in one behaviour

ScanPaths == Roots \cup { <<>>, <<SEP, "r", SEP, "a", SEP, "f", "1">>, <<SEP, "x">> }

start_folder_size_scan_call(root_path, joined) ==
    /\ gui_pc = "idle"
    /\ start_folder_size_scan(root_path, joined, Gui, evq)
    /\ UNCHANGED <<diskVars, root, settings, loaded, gui_pc, searchVars, expandVars>>

RefusalsBounded == size_refusals' <= MaxRefusals

NextSizeScan ==
    \/ \E root_path \in ScanPaths, joined \in BOOLEAN :
          start_folder_size_scan_call(root_path, joined) /\ ScansBounded /\ RefusalsBounded
    \/ \E id \in 1..Len(sizeW) : SizeWorkerStep(id)
    \/ Deliver

SpecSizeScan == Init /\ [][NextSizeScan]_vars

\* Search, with size tracking off (the default of load_settings).
InitSearch == Init /\ ~settings.compute_folder_sizes

NextSearch ==
    \/ \E needle \in Needles, joined \in BOOLEAN :
          find_next(needle, joined) /\ SearchesBounded
    \/ \E p \in Roots, sjoined \in BOOLEAN : on_browse(p, sjoined, FALSE)
    \/ \E id \in 1..Len(searchW) : SearchWorkerStep(id)
    \/ \E path \in LazyPaths : ModelLoad(path)
    \/ Deliver

SpecSearch == InitSearch /\ [][NextSearch]_vars

\* SearchWorker on its own: constructed for any root and needle, run, and
\* stopped at any point by stop() (lines 187-188); its signals are delivered.
SearchWorker_stop(id) ==
    /\ searchW[id].running
    /\ searchW' = [searchW EXCEPT ![id].running = FALSE]
    /\ UNCHANGED <<diskVars, root, settings, loaded, evq, gui_pc, search_thread, matches,
                   match_pos, matches_root, matches_needle, shown, search_errors, sizeVars,
                   expandVars>>

InitSearchWorker ==
    /\ fs \in StartDisks
    /\ clipboard_files = <<>>
    /\ clipboard_mode = "none"
    /\ root \in Roots
    /\ settings = [compute_folder_sizes |-> FALSE]
    /\ loaded = {}
    /\ evq = <<>>
    /\ gui_pc = "idle"
    /\ sizeW = <<>>
    /\ size_thread = 0
    /\ folder_sizes = EmptyDict
    /\ sizes_src = EmptyDict
    /\ size_refusals = 0
    /\ \E needle \in Needles : searchW = <<NewSearchWorker(1, root, needle, fs)>>
    /\ search_thread = 1
    /\ matches = <<>>
    /\ match_pos = -1
    /\ matches_root = <<>>
    /\ matches_needle = <<>>
    /\ shown = NoMatch
    /\ search_errors = 0
    /\ expandW = <<>>
    /\ expand_thread = 0
    /\ expand_queue = <<>>
    /\ queue_src = <<>>
    /\ expand_attempts = EmptyDict
    /\ expanding = FALSE
    /\ ticks = 0
    /\ lookups = EmptyDict
    /\ expanded = EmptyDict
    /\ expand_state = "idle"

NextSearchWorker ==
    \/ \E id \in 1..Len(searchW) : SearchWorkerStep(id)
    \/ \E id \in 1..Len(searchW) : SearchWorker_stop(id)
    \/ Deliver

SpecSearchWorker == InitSearchWorker /\ [][NextSearchWorker]_vars

\* Search and navigation: Find Next and Find Previous at any time.
NextNav ==
    \/ \E needle \in Needles, joined \in BOOLEAN :
          find_next(needle, joined) /\ SearchesBounded
    \/ \E needle \in Needles : find_prev(needle)
    \/ \E p \in Roots, sjoined \in BOOLEAN : on_browse(p, sjoined, FALSE)
    \/ \E id \in 1..Len(searchW) : SearchWorkerStep(id)
    \/ \E path \in LazyPaths : ModelLoad(path)
    \/ Deliver

SpecNav == InitSearch /\ [][NextNav]_vars

\* Search and Expand All while files are renamed, deleted and pasted, with
\* size tracking off; the user searches for one needle.
ChangeNeedles == { <<"f">> }

InitAfterChange == InitSearch /\ fs = 1

NextAfterChange ==
    \/ \E p \in FileOpRoots, sjoined \in BOOLEAN : on_browse(p, sjoined, FALSE)
    \/ \E needle \in ChangeNeedles, joined \in BOOLEAN :
          find_next(needle, joined) /\ SearchesBounded
    \/ expand_all_async /\ ExpandsBounded(0)
    \/ process_expand_queue_step
    \/ process_expand_queue_check
    \/ \E path \in Selectable, new \in NewNames : rename_item(path, new, FALSE, FALSE)
    \/ \E path \in Selectable : delete_selected(path, FALSE, FALSE)
    \/ \E path \in Selectable : copy_selected(path)
    \/ \E dest_path \in Dests : paste_to_path(dest_path, FALSE)
    \/ \E id \in 1..Len(searchW) : SearchWorkerStep(id)
    \/ \E id \in 1..Len(expandW) : ExpandThreadStep(id)
    \/ Deliver

SpecAfterChange == InitAfterChange /\ [][NextAfterChange]_vars

\* Expand All, with size tracking off.
InitExpand == Init /\ ~settings.compute_folder_sizes

NextExpandWith(extra) ==
    \/ expand_all_async /\ ExpandsBounded(extra)
    \/ process_expand_queue_step
    \/ process_expand_queue_check
    \/ \E p \in Roots : on_browse(p, FALSE, FALSE)
    \/ \E id \in 1..Len(expandW) : ExpandThreadStep(id)
    \/ \E path \in LazyPaths : ModelLoad(path)
    \/ Deliver

NextExpand == NextExpandWith(0)

SpecExpand == InitExpand /\ [][NextExpand]_vars

\* Expand All under fair scheduling: a started producer thread keeps running
\* until run() returns, and a pending single-shot timer fires; the user and
\* the loading of the model are under no obligation.
SpecExpandFair ==
    /\ SpecExpand
    /\ WF_vars(\E id \in 1..Len(expandW) : ExpandThreadStep(id))
    /\ WF_vars(process_expand_queue_step)
    /\ WF_vars(process_expand_queue_check)

\* Expand All with one more start, so that a stopped expansion is started again.
NextExpandRestart == NextExpandWith(1)

SpecExpandRestart == InitExpand /\ [][NextExpandRestart]_vars

(***************************************************************************)
(* What the claims speak of.                                               *)
(***************************************************************************)
RECURSIVE SumReadable(_)
SumReadable(files) ==
    IF files = <<>> THEN 0
    ELSE (IF Head(files).ok THEN Head(files).size ELSE 0) + SumReadable(Tail(files))

RECURSIVE SumOver(_, _)
SumOver(f, keys) ==
    IF keys = {} THEN 0
    ELSE LET key == CHOOSE x \in keys : TRUE
         IN  SumReadable(FileSystems[f][key].files) + SumOver(f, keys \ {key})

\* The bytes of all readable files anywhere below directory p, from the disk.
SubtreeSize(f, p) ==
    SumOver(f, {key \in DOMAIN FileSystems[f] : IsPrefix(DirKey(p), key)})

EventsOf(w, sig) == SelectSeq(w.out, LAMBDA ev : ev.sig = sig)

Visited(w) == {SizeWalk(w)[n].dirpath : n \in 1..Len(SizeWalk(w))}

\* A run that returned and was never asked to stop.
SizeCompleted(w) == w.pc = "finished" /\ w.running

\* C1: after a FolderSizeWorker run that is never stopped, every visited
\* directory (the root included) has a folder_done event, and the size of every
\* folder_done event is the sum of the sizes of all files in the subtree of its
\* directory.
C1_EmittedSizeIsSubtreeSum ==
    \A id \in 1..Len(sizeW) :
        SizeCompleted(sizeW[id]) =>
            /\ {ev.path : ev \in Range(EventsOf(sizeW[id], "folder_done"))}
                   = Visited(sizeW[id])
            /\ \A ev \in Range(EventsOf(sizeW[id], "folder_done")) :
                   ev.n = SubtreeSize(sizeW[id].fsid, ev.path)

\* C2: a FolderSizeWorker whose run() has returned, stopped or not, has emitted
\* done exactly once.
C2_SizeDoneExactlyOnce ==
    \A id \in 1..Len(sizeW) :
        /\ Len(EventsOf(sizeW[id], "size_done")) <= 1
        /\ sizeW[id].pc = "finished" => Len(EventsOf(sizeW[id], "size_done")) = 1

\* C3: at no time are two FolderSizeWorker threads running.
C3_OneSizeWorkerRunning ==
    Cardinality({id \in 1..Len(sizeW) : SizeIsRunning(sizeW[id])}) <= 1

\* C4: every entry of folder_sizes was written by a folder_done event of the
\* worker the current scan started.
C4_TableFromCurrentScan ==
    \A path \in DOMAIN folder_sizes : sizes_src[path] = size_thread

\* C5: every match in the match list was produced by a search of the current
\* root; events of a search of a previous root do not repopulate the list.
C5_MatchesOfCurrentRoot ==
    \A n \in 1..Len(matches) : matches_root[n] = root

PendingOf(sig, id) == SelectSeq(evq, LAMBDA ev : ev.sig = sig /\ ev.id = id)

\* C6: when _finalize_expansion has run for an unstopped producer, the producer
\* has finished, every batch it emitted has been appended to the queue and none
\* of its paths is left in the queue.
C6_FinalizeAfterAllBatches ==
    (expand_state = "finalized" /\ expandW[expand_thread].running) =>
        /\ ~ExpandBusy
        /\ PendingOf("batch", expand_thread) = <<>>
        /\ \A n \in 1..Len(expand_queue) : queue_src[n] # expand_thread

NeverValid == LazyPaths \ loaded

\* C7: in an expand-all run that is not stopped, a path whose index has not
\* become valid is looked up at most 9 times; it is in the queue again after
\* each of its first 8 lookups and is not in the queue after the 9th.
C7_NineLookupsThenDropped ==
    (gui_pc = "idle" /\ expand_state \in {"running", "finalized"}) =>
        \A path \in NeverValid :
            /\ DictGet(lookups, path, 0) <= MaxAttempts + 1
            /\ DictGet(lookups, path, 0) \in 1..MaxAttempts
                  => path \in Range(expand_queue)
            /\ DictGet(lookups, path, 0) = MaxAttempts + 1
                  => path \notin Range(expand_queue)

\* C8: after a stop request the producer is signalled to stop and the queue
\* and the retry counters are empty, and stay so until expand-all starts again.
C8_StoppedStaysEmpty ==
    expand_state = "stopped" =>
        /\ ~ExpandBusy \/ ~expandW[expand_thread].running
        /\ expand_queue = <<>>
        /\ expand_attempts = EmptyDict

\* C9: while an expand-all is in progress its producer walks the current root
\* and the queue holds paths of the current root only: a root change stops the
\* producer and discards the queue.
C9_ExpansionOfCurrentRoot ==
    expanding =>
        /\ expandW[expand_thread].root_path = root
        /\ \A n \in 1..Len(expand_queue) : expandW[queue_src[n]].root_path = root

FoundPaths(w) ==
    [n \in 1..Len(EventsOf(w, "found")) |-> EventsOf(w, "found")[n].path]

\* C10: a SearchWorker emits done at most once and nothing after it; when its
\* run() has returned, stopped or not, it has emitted done exactly once, and
\* done carries the paths of its found signals, in their order.
C10_SearchDoneOnceWithResults ==
    \A id \in 1..Len(searchW) :
        LET w     == searchW[id]
            dones == EventsOf(w, "search_done")
        IN  /\ Len(dones) <= 1
            /\ Len(dones) = 1 => /\ w.out[Len(w.out)].sig = "search_done"
                                 /\ dones[1].list = FoundPaths(w)
            /\ w.pc = "finished" <=> Len(dones) = 1

\* a stopped search that had found something
C10_Witness ==
    \E id \in 1..Len(searchW) :
        /\ searchW[id].pc = "finished"
        /\ ~searchW[id].running
        /\ Len(EventsOf(searchW[id], "found")) >= 1
        /\ Len(EventsOf(searchW[id], "search_done")) = 1

RECURSIVE ConcatLists(_)
ConcatLists(events) ==
    IF events = <<>> THEN <<>> ELSE Head(events).list \o ConcatLists(Tail(events))

\* The sub-directories the walk lists, directory by directory in the order
\* os.walk visits them: the order in which the walk enumerates them.
RECURSIVE ListedDirs(_)
ListedDirs(walk) ==
    IF walk = <<>> THEN <<>>
    ELSE [n \in 1..Len(Head(walk).dirs) |-> PathJoin(Head(walk).dirpath, Head(walk).dirs[n])]
         \o ListedDirs(Tail(walk))

\* The directories strictly below directory p, from the disk.
DirsBelow(f, p) ==
    {key \in DOMAIN FileSystems[f] : IsPrefix(DirKey(p), key) /\ key # DirKey(p)}

NoRepeats(s) == \A m, n \in 1..Len(s) : s[m] = s[n] => m = n

C12_RunReachesFinalize ==
    (expand_state = "running") ~>
        \/ expand_state = "stopped"
        \/ expand_state = "finalized" /\ expand_queue = <<>> /\ ~expanding

\* a finalized run that dropped a path whose index never became valid
C12_Witness ==
    /\ expand_state = "finalized"
    /\ ~expanding
    /\ expandW[expand_thread].running
    /\ \E path \in NeverValid : DictGet(lookups, path, 0) = MaxAttempts + 1

\* C13: whenever the match list is non-empty, the cursor is an index of it:
\* 0 <= match_pos < len(matches).
C13_CursorInRange ==
    matches # <<>> => (0 <= match_pos /\ match_pos < Len(matches))

\* C14: find_next or find_prev with a non-empty needle, called while the match
\* list is empty, changes neither the match list nor the cursor and starts no
\* search.
C14_NavigationOnEmptyIsNoOp ==
    [][\A needle \in Needles \ {<<>>} :
          (/\ matches = <<>>
           /\ \/ \E joined \in BOOLEAN : find_next(needle, joined)
              \/ find_prev(needle))
            => UNCHANGED <<matches, match_pos, searchW, search_thread>>]_vars

\* C15: with n >= 1 matches and the cursor at c, find_next leaves the cursor at
\* (c + 1) mod n and find_prev leaves it at (c - 1) mod n.
C15_NavigationWraps ==
    [][\A needle \in Needles \ {<<>>} :
          matches # <<>> =>
            /\ (\E joined \in BOOLEAN : find_next(needle, joined))
                  => match_pos' = (match_pos + 1) % Len(matches)
            /\ find_prev(needle)
                  => match_pos' = (match_pos - 1) % Len(matches)]_vars

RECURSIVE PathOfKey(_)
PathOfKey(key) ==
    IF key = <<>> THEN <<>> ELSE <<SEP>> \o Head(key) \o PathOfKey(Tail(key))

EntriesBelow(f, p, Matches(_)) ==
    UNION { LET dir == FileSystems[f][key]
            IN  {PathOfKey(key) \o <<SEP>> \o dir.dirs[n] :
                    n \in {m \in 1..Len(dir.dirs) : Matches(dir.dirs[m])}}
                \cup
                {PathOfKey(key) \o <<SEP>> \o dir.files[n].name :
                    n \in {m \in 1..Len(dir.files) : Matches(dir.files[m].name)}}
          : key \in {k \in DOMAIN FileSystems[f] : IsPrefix(DirKey(p), k)} }

\* C17: in an unstopped SearchWorker run that has returned, the paths emitted
\* by found are the files and directories below the root whose lower-cased
\* name contains the lower-cased needle, each emitted exactly once.
C17_FoundIffNameContainsNeedle ==
    \A id \in 1..Len(searchW) :
        LET w == searchW[id]
        IN  (w.pc = "finished" /\ w.running) =>
                /\ Range(FoundPaths(w))
                      = EntriesBelow(w.fsid, w.root_path,
                                     LAMBDA name : Contains(Lower(name), w.needle))
                /\ NoRepeats(FoundPaths(w))

\* an unstopped run has found a name that matches only when lower-cased
C17_Witness ==
    \E id \in 1..Len(searchW) :
        /\ searchW[id].pc = "finished"
        /\ searchW[id].running
        /\ \E ev \in Range(EventsOf(searchW[id], "found")) : Lower(ev.path) # ev.path

\* a is b with some elements left out, the others in the order of b
RECURSIVE IsSubSequence(_, _)
IsSubSequence(a, b) ==
    IF a = <<>> THEN TRUE
    ELSE IF b = <<>> THEN FALSE
    ELSE IF Head(a) = Head(b) THEN IsSubSequence(Tail(a), Tail(b))
    ELSE IsSubSequence(a, Tail(b))

\* The entries in discovery order: the directories in the order the walk
\* visits them, and of each its sub-directories, then its files.
RECURSIVE DiscoveryOrder(_)
DiscoveryOrder(walk) ==
    IF walk = <<>> THEN <<>>
    ELSE LET here == Head(walk)
         IN  [n \in 1..Len(here.dirs) |->
                 [name |-> here.dirs[n], path |-> PathJoin(here.dirpath, here.dirs[n])]]
             \o [n \in 1..Len(here.files) |->
                 [name |-> here.files[n].name,
                  path |-> PathJoin(here.dirpath, here.files[n].name)]]
             \o DiscoveryOrder(Tail(walk))

MatchesInDiscoveryOrder(w) ==
    LET hits == SelectSeq(DiscoveryOrder(Walk(w.fsid, w.root_path)),
                          LAMBDA entry : Contains(Lower(entry.name), w.needle))
    IN  [n \in 1..Len(hits) |-> hits[n].path]

C19_ChildNotLargerThanParent ==
    \A d \in DOMAIN folder_sizes :
        (DirName(d) # d /\ DirName(d) \in DOMAIN folder_sizes)
            => folder_sizes[d] <= folder_sizes[DirName(d)]

\* C20: the folder_done events of one FolderSizeWorker run come in
\* non-increasing depth of their paths, and the event of a directory comes
\* after the events of all its child directories.
C20_ChildrenEmittedBeforeParent ==
    \A id \in 1..Len(sizeW) :
        LET evs == EventsOf(sizeW[id], "folder_done")
        IN  /\ \A m, n \in 1..Len(evs) :
                   m < n => CountSep(evs[m].path) >= CountSep(evs[n].path)
            /\ \A n \in 1..Len(evs) :
                   \A child \in Visited(sizeW[id]) :
                       (child # evs[n].path /\ DirName(child) = evs[n].path)
                           => \E m \in 1..(n - 1) : evs[m].path = child

\* The run of a worker on the same root and disk that is never stopped.
SizeFullRun(w) == SizeRunToEnd(NewSizeWorker(w.id, w.root_path, w.fsid))

SizeSignals(w) == SelectSeq(w.out, LAMBDA ev : ev.sig \in {"folder_done", "size_progress"})

\* C21: the folder_done events of a size scan, stopped at any point or not,
\* are among the folder_done events of the uninterrupted run on the same tree,
\* and the size of each is the final cumulative value of its directory; a
\* worker that has observed the stop flag emits no further folder_done or
\* progress event.
C21_StoppedScanEmitsSubset ==
    /\ [](\A id \in 1..Len(sizeW) :
              \A ev \in Range(EventsOf(sizeW[id], "folder_done")) :
                  /\ ev \in Range(EventsOf(SizeFullRun(sizeW[id]), "folder_done"))
                  /\ ev.n = SizeFullRun(sizeW[id]).totals[ev.path])
    /\ [][\A id \in 1..Len(sizeW) :
              ~sizeW'[id].running => SizeSignals(sizeW'[id]) = SizeSignals(sizeW[id])]_vars

\* The size table a completed run leaves: the path and size of each of its
\* folder_done events, written in their order.
RECURSIVE TableOf(_)
TableOf(events) ==
    IF events = <<>> THEN EmptyDict
    ELSE DictPut(TableOf(SubSeq(events, 1, Len(events) - 1)),
                 events[Len(events)].path, events[Len(events)].n)

SingleRunTable(w) == TableOf(EventsOf(SizeFullRun(w), "folder_done"))

\* C22: when every scan so far was started for the same root of the unchanged
\* disk, the last started scan has completed and no folder_done event is
\* pending, the size table is the table one completed run produces, whether
\* the earlier scans had completed or were stopped while running.
C22_RescanSameTable ==
    (/\ size_thread # 0
     /\ SizeCompleted(sizeW[size_thread])
     /\ \A id \in 1..Len(sizeW) : sizeW[id].root_path = sizeW[size_thread].root_path
     /\ \A n \in 1..Len(evq) : evq[n].sig # "folder_done")
        => folder_sizes = SingleRunTable(sizeW[size_thread])

\* a second scan of the same root has completed after the first was stopped
\* in its rollup after it had emitted sizes
C22_Witness ==
    /\ Len(sizeW) >= 2
    /\ size_thread = Len(sizeW)
    /\ SizeCompleted(sizeW[size_thread])
    /\ sizeW[1].root_path = sizeW[size_thread].root_path
    /\ ~sizeW[1].running
    /\ Len(EventsOf(sizeW[1], "folder_done")) >= 1
    /\ evq = <<>>
    /\ folder_sizes = SingleRunTable(sizeW[size_thread])

ScanStartedFor(path) ==
    /\ Len(sizeW') = Len(sizeW) + 1
    /\ size_thread' = Len(sizeW')
    /\ sizeW'[size_thread'].root_path = path
    /\ sizeW'[size_thread'].pc # "finished"

\* the handler starts a scan of path if size tracking is on, else no scan
ScanIffEnabled(path) ==
    IF settings.compute_folder_sizes THEN ScanStartedFor(path)
    ELSE sizeW' = sizeW /\ size_thread' = size_thread

C24_ChangeInvalidatesSearchAndExpansion ==
    [][fs' # fs =>
          /\ \/ matches' = <<>>
             \/ SearchBusy /\ ~searchW'[search_thread].running
          /\ expanding =>
                /\ ~expanding'
                /\ expand_queue' = <<>>
                /\ ExpandBusy => ~expandW'[expand_thread].running]_vars

\* C25: start_folder_size_scan called with an empty path or a path that is
\* not a directory reports the invalid root once, creates no worker, leaves
\* the running worker and its stop flag as they are and leaves the size table
\* unchanged.
C25_InvalidRootAborts ==
    [][\A root_path \in ScanPaths, joined \in BOOLEAN :
          (/\ root_path = <<>> \/ ~IsDir(fs, root_path)
           /\ start_folder_size_scan_call(root_path, joined))
            => /\ size_refusals' = size_refusals + 1
               /\ UNCHANGED <<sizeW, size_thread, folder_sizes, sizes_src, evq>>]_vars

\* a call was refused while a worker that was not stopped is running and
\* the table has entries
C25_Witness ==
    /\ size_refusals = MaxRefusals
    /\ SizeBusy
    /\ sizeW[size_thread].running
    /\ folder_sizes # EmptyDict
    /\ Len(sizeW) = 1

HasUnreadable(f, d) == \E n \in 1..Len(Listing(f, d).files) : ~Listing(f, d).files[n].ok

\* C26: in a run that is not stopped, the own total of every visited
\* directory is the sum of the sizes of its readable files (a file whose size
\* cannot be read adds 0 and the files after it are still counted), every
\* visited directory has its folder_done event and done is emitted.
C26_UnreadableFileCountsZero ==
    \A id \in 1..Len(sizeW) :
        LET w == sizeW[id]
        IN  SizeCompleted(w) =>
                /\ \A d \in Visited(w) :
                       /\ d \in DOMAIN w.sizes
                       /\ w.sizes[d] = SumReadable(Listing(w.fsid, d).files)
                /\ {ev.path : ev \in Range(EventsOf(w, "folder_done"))} = Visited(w)
                /\ Len(EventsOf(w, "size_done")) = 1

\* a completed run has visited a directory that holds a readable file and a
\* file whose size cannot be read
C26_Witness ==
    \E id \in 1..Len(sizeW) :
        /\ SizeCompleted(sizeW[id])
        /\ \E d \in Visited(sizeW[id]) :
               /\ HasUnreadable(sizeW[id].fsid, d)
               /\ sizeW[id].sizes[d] > 0

(***************************************************************************)
(* The three producers side by side: the state after Browse (sizes on),    *)
(* Find and Expand All, before any of the three threads has been scheduled *)
(* and before the first drain tick.                                        *)
(***************************************************************************)
InitProducers ==
    /\ fs \in StartDisks
    /\ clipboard_files = <<>>
    /\ clipboard_mode = "none"
    /\ root \in FileOpRoots
    /\ settings = [compute_folder_sizes |-> TRUE]
    /\ loaded = {}
    /\ evq = <<>>
    /\ gui_pc = "idle"
    /\ sizeW = <<NewSizeWorker(1, root, fs)>>
    /\ size_thread = 1
    /\ folder_sizes = EmptyDict
    /\ sizes_src = EmptyDict
    /\ size_refusals = 0
    /\ \E needle \in ChangeNeedles : searchW = <<NewSearchWorker(1, root, needle, fs)>>
    /\ search_thread = 1
    /\ matches = <<>>
    /\ match_pos = -1
    /\ matches_root = <<>>
    /\ matches_needle = <<>>
    /\ shown = NoMatch
    /\ search_errors = 0
    /\ expandW = <<NewExpandThread(1, root, fs)>>
    /\ expand_thread = 1
    /\ expand_queue = <<>>
    /\ queue_src = <<>>
    /\ expand_attempts = EmptyDict
    /\ expanding = TRUE
    /\ ticks = 1
    /\ lookups = EmptyDict
    /\ expanded = EmptyDict
    /\ expand_state = "running"

NextProducers ==
    \/ process_expand_queue_step
    \/ process_expand_queue_check
    \/ \E id \in 1..Len(sizeW) : SizeWorkerStep(id)
    \/ \E id \in 1..Len(searchW) : SearchWorkerStep(id)
    \/ \E id \in 1..Len(expandW) : ExpandThreadStep(id)
    \/ Deliver

SpecProducers == InitProducers /\ [][NextProducers]_vars

\* A thread has run: the record of one of its objects differs in something
\* other than the stop flag, which is the only field the GUI thread writes.
Advanced(ws, ws2) ==
    \E id \in 1..Len(ws) : [ws2[id] EXCEPT !.running = TRUE] # [ws[id] EXCEPT !.running = TRUE]

ProducerStepped ==
    \/ Advanced(sizeW, sizeW')
    \/ Advanced(searchW, searchW')
    \/ Advanced(expandW, expandW')

\* C27: no step of a producer thread (FolderSizeWorker, SearchWorker,
\* ExpandAllThread) changes the size table, the expansion queue, the retry
\* counters, the match list or the cursor; what a producer emits is only
\* appended to the queue of posted events.
C27_ProducersLeaveConsumerData ==
    [][ProducerStepped =>
          /\ UNCHANGED <<folder_sizes, expand_queue, expand_attempts, matches, match_pos>>
          /\ \E n \in 0..Len(evq') : SubSeq(evq', 1, n) = evq]_vars

\* All three threads have run to their end with nothing delivered: the
\* events are posted and the consumer's data is as it was.
C27_Witness ==
    /\ ~SizeIsRunning(sizeW[1]) /\ ~SearchIsRunning(searchW[1]) /\ ~ExpandIsRunning(expandW[1])
    /\ \A sig \in {"folder_done", "found", "batch"} : \E n \in 1..Len(evq) : evq[n].sig = sig
    /\ folder_sizes = EmptyDict /\ matches = <<>> /\ expand_queue = <<>>

\* A transition that is the loop of _process_expand_queue_step.
DrainTick == gui_pc = "idle" /\ gui_pc' = "tick_check"

TickTaken == IF Len(expand_queue) < MAX_PER_TICK THEN Len(expand_queue) ELSE MAX_PER_TICK

TickLooked == SubSeq(expand_queue, 1, TickTaken)

TickRetried ==
    SelectSeq(TickLooked,
              LAMBDA p : ~IndexValid(p) /\ DictGet(expand_attempts, p, 0) + 1 <= MaxAttempts)

RECURSIVE SumLookups(_, _)
SumLookups(m, keys) ==
    IF keys = {} THEN 0
    ELSE LET key == CHOOSE x \in keys : TRUE
         IN  m[key] + SumLookups(m, keys \ {key})

\* C28: a drain tick takes at most 40 paths from the head of the queue, looks
\* no path up more than once, and leaves the queue as the paths it did not
\* take followed by the paths it has to retry, in their order, ahead of
\* whatever arrives afterwards.
C28_TickTakesHeadOncePerPath ==
    [][DrainTick =>
          /\ SumLookups(lookups', DOMAIN lookups') - SumLookups(lookups, DOMAIN lookups)
                 <= MAX_PER_TICK
          /\ \A p \in DOMAIN lookups' : lookups'[p] - DictGet(lookups, p, 0) <= 1
          /\ \A p \in Range(TickLooked) : lookups'[p] = DictGet(lookups, p, 0) + 1
          /\ IsPrefix(Suffix(expand_queue, TickTaken) \o TickRetried, expand_queue')]_vars

\* C29: in an expand-all run a path is expanded at most once; once expanded
\* it is not in the queue and has no retry counter; and every path in the
\* queue has a retry count of at most 8.
C29_ExpandedOnceAndCeiling ==
    expand_state \in {"running", "finalized"} =>
        /\ \A p \in DOMAIN expanded :
              /\ expanded[p] = 1
              /\ p \notin Range(expand_queue)
              /\ p \notin DOMAIN expand_attempts
        /\ \A p \in Range(expand_queue) : DictGet(expand_attempts, p, 0) <= MaxAttempts

\* C30: whatever the timing of the start and stop requests, at most one
\* single-shot timer for _process_expand_queue_step is pending.
C30_OneDrainTickPending == ticks <= 1

\* C31: while an expand-all run is in progress its queue holds only paths
\* emitted by the ExpandAllThread of that run, and no two ExpandAllThread
\* objects are running at the same time.
C31_QueueOfNewThreadOnly ==
    /\ expanding => \A n \in 1..Len(expand_queue) : queue_src[n] = expand_thread
    /\ \A id1, id2 \in 1..Len(expandW) :
          (ExpandIsRunning(expandW[id1]) /\ ExpandIsRunning(expandW[id2])) => id1 = id2

\* C32: between drain ticks of an expand-all run every path with a retry
\* counter is in the queue, and after _finalize_expansion the table of retry
\* counters is empty.
C32_CountersOnlyForQueuedPaths ==
    /\ (gui_pc = "idle" /\ expand_state \in {"running", "finalized"})
          => DOMAIN expand_attempts \subseteq Range(expand_queue)
    /\ expand_state = "finalized" => expand_attempts = EmptyDict

\* C33: the match find_next or find_prev goes to was found for the needle in
\* the search field (letter case aside); a different needle starts a new
\* search instead of stepping through the matches of the previous one.
C33_ShownMatchIsOfEnteredNeedle == Lower(shown.needle) = Lower(shown.found_for)

\* C34: _on_search_done never raises on an empty match list, and an empty
\* match list goes with no current match (match_pos = -1).
C34_SearchDoneOnNoValidIndex ==
    /\ search_errors = 0
    /\ matches = <<>> => match_pos = -1

\* C35: in the rollup of every FolderSizeWorker the root comes after all
\* other directories, the parent of every directory but the root has an
\* entry in totals, and no directory is its own parent.
C35_RollupRootLastParentsKnown ==
    \A id \in 1..Len(sizeW) :
        LET w == sizeW[id]
        IN  /\ \A n \in 1..Len(w.sorted) : w.sorted[n] = w.root_path => n = Len(w.sorted)
            /\ \A n \in 1..Len(w.sorted) :
                  /\ w.sorted[n] # w.root_path => DirName(w.sorted[n]) \in DOMAIN w.totals
                  /\ DirName(w.sorted[n]) # w.sorted[n]

====
